---- MODULE Spec2Model ----
(***************************************************************************)
(* Profile picture generator (src/app.py).                                 *)
(*                                                                         *)
(* process_image is modelled as a pure operator of the image's environment *)
(* (what the face locator, PIL and the font loader do for that image), the *)
(* name and the configuration; main() is modelled as the state machine of  *)
(* one script run.  Pixel content, colours, JPEG quality and text          *)
(* positions are not represented: an artifact is the record of the         *)
(* geometry it was composed from.                                          *)
(***************************************************************************)
EXTENDS Integers, Sequences, FiniteSets, TLC

VARIABLES
    pc,              \* position of the script run / of the function under check
    upload,          \* the uploaded archive (None when nothing is uploaded)
    image_files,     \* main: image_files
    names_column,    \* main: names_column
    total_images,    \* main: total_images
    i,               \* main: loop variable of "Process All Images"
    processed_count, \* main: processed_count
    zip_file,        \* main: entries written to the output archive, in order
    calls,           \* every call of process_image of this run, in order
    ui,              \* what the run has shown: errors, warnings, success, link
    inp,             \* inputs of the function under check
    out              \* its result

vars == <<pc, upload, image_files, names_column, total_images, i,
          processed_count, zip_file, calls, ui, inp, out>>

(***************************************************************************)
(* Bounds of the model.                                                    *)
(***************************************************************************)
MaxCoord     == 12  \* face coordinates are drawn from 0..MaxCoord
BboxSpan     == 1   \* bounding-box sizes MinBboxSize..MinBboxSize+BboxSpan
PadSpan      == 1   \* paddings MinPadding..MinPadding+PadSpan
MaxNameLen   == 3   \* characters of a name
MaxWrapLen   == 5   \* characters of a name handed to get_wrapped_text alone
WidthSpan    == 2   \* measured widths are drawn from a window of this span
MaxImages    == 3   \* image files in the uploaded archive
MaxNames     == 2   \* rows of the first CSV column
GlyphWidth   == 10  \* width of one character in the fixed font of a batch
MaxSeq       == 120 \* sequence numbers whose entry names are examined

(***************************************************************************)
(* Ranges of the configuration sliders.                                    *)
(***************************************************************************)
MinBboxSize   == 20
MaxBboxSize   == 200
MinPadding    == 0
MaxPadding    == 100
MinFrame      == 50
MaxFrame      == 500
MinRadius     == 0
MaxRadius     == 100
MinTopPadding == 0
MaxTopPadding == 100
TextMargin    == 20

Min(a, b) == IF a <= b THEN a ELSE b
Max(a, b) == IF a >= b THEN a ELSE b

None == [kind |-> "None"]

(***************************************************************************)
(* get_face_location: the first face the locator found, or nothing.        *)
(* A face is <<top, right, bottom, left>>; NoFace stands for None.         *)
(***************************************************************************)
NoFace == <<>>

get_face_location(face_locations) ==
    IF face_locations = <<>> THEN NoFace ELSE face_locations[1]

(***************************************************************************)
(* The crop rectangle <<left, top, right, bottom>> of process_image.       *)
(***************************************************************************)
CropBoxClampedToImage(face, bbox_size, padding, img_size) ==
    LET face_center_x == (face[4] + face[2]) \div 2
        face_center_y == (face[1] + face[3]) \div 2
        half_bbox     == bbox_size \div 2
    IN  << Max(0, face_center_x - half_bbox - padding),
           Max(0, face_center_y - half_bbox - padding),
           Min(img_size[1], face_center_x + half_bbox + padding),
           Min(img_size[2], face_center_y + half_bbox + padding) >>

CropBox(face, bbox_size, padding, img_size) ==
    LET top    == face[1]
        right  == face[2]
        bottom == face[3]
        left   == face[4]
        face_center_x == (left + right) \div 2
        face_center_y == (top + bottom) \div 2
        half_bbox     == bbox_size \div 2
        bbox_left   == Max(0, face_center_x - half_bbox - padding)
        bbox_top    == Max(0, face_center_y - half_bbox - padding)
        bbox_right  == face_center_x + half_bbox + padding
        bbox_bottom == face_center_y + half_bbox + padding
    IN  <<bbox_left, bbox_top, bbox_right, bbox_bottom>>

(***************************************************************************)
(* The side of the resized tile.                                           *)
(***************************************************************************)
CroppedSize(frame_size) == Min(frame_size[1], frame_size[1])

(***************************************************************************)
(* The alpha mask of the tile: none, a full circle or a rounded rectangle. *)
(***************************************************************************)
MaskShapeStrict(border_radius, cropped_size) ==
    IF border_radius > 0
    THEN IF border_radius > cropped_size \div 2
         THEN [shape |-> "ellipse", radius |-> 0]
         ELSE [shape |-> "rounded_rectangle", radius |-> border_radius]
    ELSE [shape |-> "none", radius |-> 0]

MaskShape(border_radius, cropped_size) ==
    IF border_radius > 0
    THEN IF border_radius >= cropped_size \div 2
         THEN [shape |-> "ellipse", radius |-> 0]
         ELSE [shape |-> "rounded_rectangle", radius |-> border_radius]
    ELSE [shape |-> "none", radius |-> 0]

(***************************************************************************)
(* Text.  A string is a sequence of characters; Space is the one           *)
(* whitespace character, every other number is a letter.  A name cell of   *)
(* the CSV is [str |-> TRUE, chars |-> s], or [str |-> FALSE, ...] for a   *)
(* cell pandas did not read as a string (an empty cell, a number).         *)
(***************************************************************************)
Space == 0

Str(s) == [str |-> TRUE, chars |-> s]
NotAStr == [str |-> FALSE, chars |-> <<>>]

RECURSIVE SplitFrom(_, _, _, _)
SplitFrom(text, k, cur, words) ==
    IF k > Len(text)
    THEN IF cur = <<>> THEN words ELSE Append(words, cur)
    ELSE IF text[k] = Space
         THEN SplitFrom(text, k + 1, <<>>,
                        IF cur = <<>> THEN words ELSE Append(words, cur))
         ELSE SplitFrom(text, k + 1, Append(cur, text[k]), words)

\* str.split(): the maximal runs of non-whitespace characters, in order.
Split(text) == SplitFrom(text, 1, <<>>, <<>>)

RECURSIVE JoinWords(_)
\* " ".join(words)
JoinWords(words) ==
    IF words = <<>> THEN <<>>
    ELSE IF Len(words) = 1 THEN words[1]
    ELSE words[1] \o <<Space>> \o JoinWords(Tail(words))

\* Every line get_wrapped_text can measure or return for this text.
Lines(text) ==
    LET words == Split(text)
    IN  { JoinWords(SubSeq(words, a, b)) :
            a \in 1..Len(words), b \in 1..Len(words) } \ {<<>>}

(***************************************************************************)
(* get_wrapped_text.  font is the font's getlength, a function of the      *)
(* line.  The result is [raised |-> TRUE] when words[0] raises IndexError  *)
(* (or text.split raises AttributeError), else the list of lines.          *)
(***************************************************************************)
FitsWordAlone(font, current_line, word, max_width) ==
    font[word] <= max_width

Fits(font, current_line, word, max_width) ==
    LET test_line  == current_line \o <<Space>> \o word
        test_width == font[test_line]
    IN  test_width <= max_width

RECURSIVE WrapLoopNoLastLine(_, _, _, _, _, _)
\* The loop without the append that follows it.
WrapLoopNoLastLine(words, k, current_line, lines, font, max_width) ==
    IF k > Len(words)
    THEN lines
    ELSE IF Fits(font, current_line, words[k], max_width)
         THEN WrapLoopNoLastLine(words, k + 1,
                                 current_line \o <<Space>> \o words[k],
                                 lines, font, max_width)
         ELSE WrapLoopNoLastLine(words, k + 1, words[k],
                                 Append(lines, current_line), font, max_width)

RECURSIVE WrapLoop(_, _, _, _, _, _)
WrapLoop(words, k, current_line, lines, font, max_width) ==
    IF k > Len(words)
    THEN Append(lines, current_line)
    ELSE IF Fits(font, current_line, words[k], max_width)
         THEN WrapLoop(words, k + 1, current_line \o <<Space>> \o words[k],
                       lines, font, max_width)
         ELSE WrapLoop(words, k + 1, words[k],
                       Append(lines, current_line), font, max_width)

\* A name without a word wraps to no line instead of raising.
get_wrapped_text_or_empty(text, font, max_width) ==
    IF ~text.str
    THEN [raised |-> TRUE, lines |-> <<>>]
    ELSE LET words == Split(text.chars)
         IN  [raised |-> FALSE,
              lines  |-> IF words = <<>> THEN <<>>
                         ELSE WrapLoop(words, 2, words[1], <<>>, font, max_width)]

get_wrapped_text(text, font, max_width) ==
    IF ~text.str \/ Split(text.chars) = <<>>
    THEN [raised |-> TRUE, lines |-> <<>>]
    ELSE LET words == Split(text.chars)
         IN  [raised |-> FALSE,
              lines  |-> WrapLoop(words, 2, words[1], <<>>, font, max_width)]

\* The fixed-pitch font of the pipeline runs: every character is glyph wide.
FixedFont(text, glyph) ==
    [line \in (IF text.str THEN Lines(text.chars) ELSE {}) |-> glyph * Len(line)]

(***************************************************************************)
(* process_image.                                                          *)
(*                                                                         *)
(* env is what the libraries do for this image:                            *)
(*   face_locations  the faces the locator finds (a sequence)              *)
(*   img_size        the size of the source image                          *)
(*   font            "ok": truetype loads; "ioerror": it raises IOError;   *)
(*                   "error": it raises another exception                  *)
(*   raises          the step at which a library call raises, or "none"    *)
(*   glyph           the character width of the font                       *)
(* The result is [ret, warnings, errors, steps, font_load, raised,          *)
(* raised_at]: the value returned, the st.warning and st.error calls made, *)
(* the steps completed, what loading the font did ("not_reached" when the  *)
(* call ended before it, "ioerror" when truetype raised IOError and        *)
(* load_default loaded, "ioerror_twice" when load_default raised too,      *)
(* "error" when truetype raised another exception), whether an exception   *)
(* reached the except clause and the step that raised it.                  *)
(***************************************************************************)
StepNames == <<"detect", "open", "crop", "resize", "mask", "canvas",
               "paste", "font", "wrap", "draw", "encode">>

RaiseNames == {StepNames[k] : k \in 1..Len(StepNames)} \cup {"load_default", "none"}

RECURSIVE Without(_, _)
Without(seq, x) ==
    IF seq = <<>> THEN <<>>
    ELSE IF Head(seq) = x THEN Without(Tail(seq), x)
    ELSE <<Head(seq)>> \o Without(Tail(seq), x)

\* The steps a call runs through: the mask is built only for a border radius.
Plan(cfg) ==
    IF cfg.border_radius > 0 THEN StepNames ELSE Without(StepNames, "mask")

\* Loading the font: truetype, and load_default after an IOError.
FontLoadNoFallback(env) ==
    IF env.font = "ok" THEN [raised |-> FALSE, font |-> "truetype"]
    ELSE [raised |-> TRUE, font |-> "none"]

FontLoad(env) ==
    IF env.font = "ok" THEN [raised |-> FALSE, font |-> "truetype"]
    ELSE IF env.font = "ioerror"
         THEN IF env.raises = "load_default"
              THEN [raised |-> TRUE, font |-> "none"]
              ELSE [raised |-> FALSE, font |-> "default"]
         ELSE [raised |-> TRUE, font |-> "none"]

Raises(step, env, name, cfg) ==
    \/ env.raises = step
    \/ step = "font" /\ FontLoad(env).raised
    \/ step = "wrap" /\ get_wrapped_text(name, FixedFont(name, env.glyph),
                                         cfg.frame_size[1] - TextMargin).raised

\* Image.new(frame_size), and the paste of the tile, which PIL clips to the frame.
PasteGrowing(frame_size, cropped_size, pos) ==
    << Max(frame_size[1], pos[1] + cropped_size),
       Max(frame_size[2], pos[2] + cropped_size) >>

Paste(frame_size, cropped_size, pos) == frame_size

\* except Exception: one st.error, return None.
CaughtSilently(done, font_load, step) ==
    [ret |-> None, warnings |-> 0, errors |-> 0, steps |-> done,
     font_load |-> font_load, raised |-> TRUE, raised_at |-> step]

Caught(done, font_load, step) ==
    [ret |-> None, warnings |-> 0, errors |-> 1, steps |-> done,
     font_load |-> font_load, raised |-> TRUE, raised_at |-> step]

\* if not face_location: one st.warning, return None.
NoFaceAsError(done) ==
    [ret |-> None, warnings |-> 0, errors |-> 1, steps |-> done,
     font_load |-> "not_reached", raised |-> FALSE, raised_at |-> "none"]

NoFaceOutcome(done) ==
    [ret |-> None, warnings |-> 1, errors |-> 0, steps |-> done,
     font_load |-> "not_reached", raised |-> FALSE, raised_at |-> "none"]

Artifact(env, name, cfg, face) ==
    LET frame_size   == cfg.frame_size
        cropped_size == CroppedSize(frame_size)
        pos_x        == (frame_size[1] - cropped_size) \div 2
        pos_y        == cfg.top_padding
    IN  [kind  |-> "JPEG",
         size  |-> Paste(frame_size, cropped_size, <<pos_x, pos_y>>),
         box   |-> CropBox(face, cfg.bbox_size, cfg.padding, env.img_size),
         tile  |-> [side |-> cropped_size,
                    mask |-> MaskShape(cfg.border_radius, cropped_size),
                    pos  |-> <<pos_x, pos_y>>],
         font  |-> FontLoad(env).font,
         lines |-> get_wrapped_text(name, FixedFont(name, env.glyph),
                                    frame_size[1] - TextMargin).lines]

Minimum(S) == CHOOSE x \in S : \A y \in S : x <= y

Position(seq, x) ==
    IF \E k \in 1..Len(seq) : seq[k] = x
    THEN Minimum({k \in 1..Len(seq) : seq[k] = x})
    ELSE 0

ProcessImage(env, name, cfg) ==
    LET plan  == Plan(cfg)
        bad   == {k \in 1..Len(plan) : Raises(plan[k], env, name, cfg)}
        stop  == IF bad = {} THEN Len(plan) + 1 ELSE Minimum(bad)
        face_location == get_face_location(env.face_locations)
        font_load ==
            IF stop < Position(plan, "font") THEN "not_reached"
            ELSE IF env.font = "ioerror" /\ env.raises = "load_default"
                 THEN "ioerror_twice"
                 ELSE env.font
    IN  IF stop = 1
        THEN Caught(<<>>, "not_reached", plan[1])
        ELSE IF face_location = NoFace
        THEN NoFaceOutcome(<<"detect">>)
        ELSE IF stop <= Len(plan)
        THEN Caught(SubSeq(plan, 1, stop - 1), font_load, plan[stop])
        ELSE [ret |-> Artifact(env, name, cfg, face_location),
              warnings |-> 0, errors |-> 0, steps |-> plan,
              font_load |-> font_load, raised |-> FALSE,
              raised_at |-> "none"]

(***************************************************************************)
(* Input sets.                                                             *)
(***************************************************************************)
\* Faces <<top, right, bottom, left>> with left < right and top < bottom.
FaceRects(n) ==
    { <<t, r, b, l>> : t \in 0..n, r \in 0..n, b \in 0..n, l \in 0..n }
        \cap { f \in Seq(0..n) : Len(f) = 4 /\ f[4] < f[2] /\ f[1] < f[3] }

Letters == {1, 2}

RECURSIVE Texts(_)
\* All strings of at most n characters.
Texts(n) ==
    IF n = 0 THEN {<<>>}
    ELSE LET shorter == Texts(n - 1)
         IN  shorter \cup { Append(t, c) : t \in { u \in shorter : Len(u) = n - 1 },
                                           c \in Letters \cup {Space} }

\* Source images: one no larger than the face region, one larger than any crop.
ImgSides == {MaxCoord, MaxFrame}

NoRun ==
    /\ upload = None
    /\ image_files = <<>>
    /\ names_column = <<>>
    /\ total_images = 0
    /\ i = 0
    /\ processed_count = 0
    /\ zip_file = <<>>
    /\ calls = <<>>
    /\ ui = None

RunVars == <<upload, image_files, names_column, total_images, i,
             processed_count, zip_file, calls, ui>>

(***************************************************************************)
(* SpecMask: the mask of the tile, for every frame width and radius.       *)
(***************************************************************************)
InitMask ==
    /\ NoRun
    /\ pc = "mask_in"
    /\ inp \in [frame_width : MinFrame..MaxFrame,
                border_radius : MinRadius..MaxRadius]
    /\ out = None

ApplyMask ==
    /\ pc = "mask_in"
    /\ pc' = "mask_out"
    /\ out' = LET cropped_size == CroppedSize(<<inp.frame_width, inp.frame_width>>)
              IN  [side |-> cropped_size,
                   mask |-> MaskShape(inp.border_radius, cropped_size)]
    /\ UNCHANGED <<inp, RunVars>>

NextMask == ApplyMask

SpecMask == InitMask /\ [][NextMask]_vars

(***************************************************************************)
(* SpecCrop: the crop rectangle, for faces inside a source image.          *)
(***************************************************************************)
InitCrop ==
    /\ NoRun
    /\ pc = "crop_in"
    /\ inp \in [face : FaceRects(MaxCoord),
                bbox_size : MinBboxSize..(MinBboxSize + BboxSpan),
                padding : MinPadding..(MinPadding + PadSpan),
                img_size : { <<s, s>> : s \in ImgSides }]
    /\ out = None

ApplyCrop ==
    /\ pc = "crop_in"
    /\ pc' = "crop_out"
    /\ out' = [box |-> CropBox(inp.face, inp.bbox_size, inp.padding, inp.img_size)]
    /\ UNCHANGED <<inp, RunVars>>

NextCrop == ApplyCrop

SpecCrop == InitCrop /\ [][NextCrop]_vars

(***************************************************************************)
(* SpecWrap: get_wrapped_text, for every text and every width function.    *)
(***************************************************************************)
Widths ==
    (MinFrame - TextMargin - 1)..(MinFrame - TextMargin - 1 + WidthSpan)

InitWrap ==
    /\ NoRun
    /\ pc = "wrap_in"
    /\ \E t \in Texts(MaxWrapLen), w \in {MinFrame, MinFrame + 1} :
         \E f \in [Lines(t) -> Widths] :
            inp = [text |-> Str(t), font |-> f, frame_width |-> w]
    /\ out = None

ApplyWrap ==
    /\ pc = "wrap_in"
    /\ pc' = "wrap_out"
    /\ out' = get_wrapped_text(inp.text, inp.font, inp.frame_width - TextMargin)
    /\ UNCHANGED <<inp, RunVars>>

NextWrap == ApplyWrap

SpecWrap == InitWrap /\ [][NextWrap]_vars

(***************************************************************************)
(* SpecImage: one call of process_image, for every environment of the      *)
(* image, name and configuration of the sets below.                        *)
(***************************************************************************)
SampleFaces ==
    { f \in FaceRects(MaxCoord) : \A k \in 1..4 : f[k] \in {0, MaxCoord} }
        \cup {<<1, MaxCoord, 2, 0>>}

FaceLists ==
    {<<>>} \cup { <<f>> : f \in SampleFaces }
           \cup { <<f, <<0, 1, 1, 0>> >> : f \in SampleFaces }

Envs ==
    [face_locations : FaceLists,
     img_size : {<<MaxCoord, MaxCoord>>},
     font : {"ok", "ioerror", "error"},
     raises : RaiseNames,
     glyph : {GlyphWidth}]

Names ==
    { Str(t) : t \in { u \in Texts(MaxNameLen) :
                         \A k \in 1..Len(u) : u[k] \in {Space, 1} } }
        \cup {NotAStr}

Configs ==
    [bbox_size : {MinBboxSize, MaxBboxSize},
     padding : {MinPadding},
     frame_size : {MinFrame, MinFrame + 1} \X {MinFrame, MaxFrame},
     border_radius : {MinRadius, MinFrame \div 2, MaxRadius},
     top_padding : {MinTopPadding, MaxTopPadding}]

InitImage ==
    /\ NoRun
    /\ pc = "image_in"
    /\ inp \in [env : Envs, name : Names, cfg : Configs]
    /\ out = None

ApplyProcessImage ==
    /\ pc = "image_in"
    /\ pc' = "image_out"
    /\ out' = ProcessImage(inp.env, inp.name, inp.cfg)
    /\ UNCHANGED <<inp, RunVars>>

NextImage == ApplyProcessImage

SpecImage == InitImage /\ [][NextImage]_vars

(***************************************************************************)
(* File names.  A character of a file name is its ASCII code; a file found *)
(* in the archive is [stem, ext], all files in one directory.              *)
(***************************************************************************)
Dot == 46
Zero == 48
Nine == 57

Jpg == <<106, 112, 103>>
Png == <<112, 110, 103>>

\* Path.name
FileName(f) == f.stem \o <<Dot>> \o f.ext

IsDigits(s) == s # <<>> /\ \A k \in 1..Len(s) : s[k] \in Zero..Nine

RECURSIVE DecimalValue(_)
DecimalValue(s) ==
    IF s = <<>> THEN 0
    ELSE 10 * DecimalValue(SubSeq(s, 1, Len(s) - 1)) + (s[Len(s)] - Zero)

\* int(s) of a string of decimal digits; any other string raises ValueError.
ParseInt(s) ==
    IF IsDigits(s) THEN [raised |-> FALSE, value |-> DecimalValue(s)]
    ELSE [raised |-> TRUE, value |-> 0]

RECURSIVE LexLess(_, _)
\* a < b for strings.
LexLess(a, b) ==
    IF b = <<>> THEN FALSE
    ELSE IF a = <<>> THEN TRUE
    ELSE IF a[1] # b[1] THEN a[1] < b[1]
    ELSE LexLess(Tail(a), Tail(b))

RECURSIVE Digits(_)
Digits(n) ==
    IF n < 10 THEN <<Zero + n>>
    ELSE Append(Digits(n \div 10), Zero + (n % 10))

\* f"{n}.jpg"
EntryNameUnpadded(n) == Digits(n) \o <<Dot>> \o Jpg

\* f"{n:02d}.jpg"
EntryName(n) ==
    (IF n < 10 THEN <<Zero>> \o Digits(n) ELSE Digits(n)) \o <<Dot>> \o Jpg

(***************************************************************************)
(* list.sort: a stable sort by a key, as insertion from the left.          *)
(***************************************************************************)
NumericLess(f, g) == ParseInt(f.stem).value < ParseInt(g.stem).value
PathLess(f, g) == LexLess(FileName(f), FileName(g))

\* The order of a sort: by int(x.stem) when numeric, else of the paths.
Less(f, g, numeric) == IF numeric THEN NumericLess(f, g) ELSE PathLess(f, g)

RECURSIVE InsertSorted(_, _, _)
\* x goes after every element that is not greater than it.
InsertSorted(sorted, x, numeric) ==
    IF sorted = <<>> THEN <<x>>
    ELSE IF Less(x, sorted[1], numeric) THEN <<x>> \o sorted
    ELSE <<sorted[1]>> \o InsertSorted(Tail(sorted), x, numeric)

RECURSIVE StableSort(_, _)
StableSort(seq, numeric) ==
    IF seq = <<>> THEN <<>>
    ELSE InsertSorted(StableSort(SubSeq(seq, 1, Len(seq) - 1), numeric),
                      seq[Len(seq)], numeric)

\* image_files.sort() alone.
SortImagesByPath(files) == StableSort(files, FALSE)

\* image_files.sort(key=lambda x: int(x.stem)), and image_files.sort() when
\* a stem is not an integer (the failed sort leaves the list as it was).
SortImages(files) ==
    IF \A k \in 1..Len(files) : ~ParseInt(files[k].stem).raised
    THEN StableSort(files, TRUE)
    ELSE StableSort(files, FALSE)

(***************************************************************************)
(* The uploaded archive.                                                   *)
(***************************************************************************)
\* 2.jpg, 10.jpg, a.jpg, 02.png
FilePool ==
    { [stem |-> <<50>>, ext |-> Jpg], [stem |-> <<49, 48>>, ext |-> Jpg],
      [stem |-> <<97>>, ext |-> Jpg], [stem |-> <<48, 50>>, ext |-> Png] }

\* The files in the order the globs find them: the jpg files in any order,
\* then the png files.
FoundLists ==
    { fs \in UNION { [1..n -> FilePool] : n \in 0..MaxImages } :
        /\ \A a, b \in 1..Len(fs) : a # b => fs[a] # fs[b]
        /\ \A a, b \in 1..Len(fs) :
              (fs[a].ext = Png /\ fs[b].ext = Jpg) => b < a }

\* Cells of the first CSV column: a two-word name, a blank one.
NameCells == { Str(<<1, Space, 2>>), Str(<<Space>>) }

NameColumns == UNION { [1..n -> NameCells] : n \in 0..MaxNames }

Uploads ==
    { [csv |-> c, names |-> ns, found |-> fs] :
        c \in {"missing", "unreadable", "nocolumns", "ok"},
        ns \in NameColumns, fs \in FoundLists }
      \cap { u \in [csv : STRING, names : NameColumns, found : FoundLists] :
                u.csv # "ok" => u.names = <<>> }

\* The slider defaults.
DefaultCfg ==
    [bbox_size |-> 40, padding |-> 40, frame_size |-> <<100, 160>>,
     border_radius |-> 0, top_padding |-> 10]

\* What the libraries can do for an image of a batch.
BatchEnvs ==
    [face_locations : {<<>>, << <<1, MaxCoord, 2, 0>> >>},
     img_size : {<<MaxCoord, MaxCoord>>},
     font : {"ok", "ioerror", "error"},
     raises : {"none", "open", "load_default", "encode"},
     glyph : {GlyphWidth}]

\* What process_image can return to main for a name and a configuration: its
\* result in each environment.
MainCalls ==
    [name \in NameCells, cfg \in {DefaultCfg} |->
        {ProcessImage(env, name, cfg) : env \in BatchEnvs}]

\* What main keeps of a call: the arguments and what the call did.
CallRecord(pos, image, name, r) ==
    [pos |-> pos, image |-> image, name |-> name, ret |-> r.ret,
     warnings |-> r.warnings, errors |-> r.errors, raised |-> r.raised,
     raised_at |-> r.raised_at, font_load |-> r.font_load]

BlankUi ==
    [errors |-> 0, warnings |-> 0, zip_created |-> FALSE, success |-> FALSE,
     link |-> FALSE, status |-> <<>>]

(***************************************************************************)
(* main: one run of the script.                                            *)
(***************************************************************************)
Init ==
    /\ pc = "start"
    /\ upload \in Uploads \cup {None}
    /\ image_files = <<>>
    /\ names_column = <<>>
    /\ total_images = 0
    /\ i = 0
    /\ processed_count = 0
    /\ zip_file = <<>>
    /\ calls = <<>>
    /\ ui = BlankUi
    /\ inp \in [cfg : {DefaultCfg}, button : {"none", "preview", "batch"}]
    /\ out = None

\* if uploaded_zip is not None
NoUpload ==
    /\ pc = "start"
    /\ upload = None
    /\ pc' = "done"
    /\ UNCHANGED <<RunVars, inp, out>>

Extract ==
    /\ pc = "start"
    /\ upload # None
    /\ pc' = "csv"
    /\ UNCHANGED <<RunVars, inp, out>>

\* csv_files = ...glob('**/*.csv'); if not csv_files: st.error
FindCsv ==
    /\ pc = "csv"
    /\ IF upload.csv = "missing"
       THEN /\ ui' = [ui EXCEPT !.errors = @ + 1]
            /\ pc' = "done"
       ELSE /\ ui' = ui
            /\ pc' = "read"
    /\ UNCHANGED <<upload, image_files, names_column, total_images, i,
                   processed_count, zip_file, calls, inp, out>>

\* pd.read_csv, the check of the columns, names_column = df.iloc[:, 0]
ReadCsv ==
    /\ pc = "read"
    /\ IF upload.csv \in {"unreadable", "nocolumns"}
       THEN /\ ui' = [ui EXCEPT !.errors = @ + 1]
            /\ names_column' = names_column
            /\ pc' = "done"
       ELSE /\ ui' = ui
            /\ names_column' = upload.names
            /\ pc' = "images"
    /\ UNCHANGED <<upload, image_files, total_images, i, processed_count,
                   zip_file, calls, inp, out>>

\* A missing else: the error is shown and the run goes on to the buttons.
FindImagesFallThrough ==
    /\ pc = "images"
    /\ IF upload.found = <<>>
       THEN /\ ui' = [ui EXCEPT !.errors = @ + 1]
            /\ image_files' = <<>>
            /\ pc' = "buttons"
       ELSE /\ ui' = ui
            /\ image_files' = SortImages(upload.found)
            /\ pc' = "buttons"
    /\ UNCHANGED <<upload, names_column, total_images, i, processed_count,
                   zip_file, calls, inp, out>>

\* The globs for the images, and the sort of what they found.
FindImages ==
    /\ pc = "images"
    /\ IF upload.found = <<>>
       THEN /\ ui' = [ui EXCEPT !.errors = @ + 1]
            /\ image_files' = <<>>
            /\ pc' = "done"
       ELSE /\ ui' = ui
            /\ image_files' = SortImages(upload.found)
            /\ pc' = "buttons"
    /\ UNCHANGED <<upload, names_column, total_images, i, processed_count,
                   zip_file, calls, inp, out>>

\* Neither button was clicked in this run.
NoButton ==
    /\ pc = "buttons"
    /\ inp.button = "none"
    /\ pc' = "done"
    /\ UNCHANGED <<RunVars, inp, out>>

\* if st.button("Generate Preview")
Preview ==
    /\ pc = "buttons"
    /\ inp.button = "preview"
    /\ pc' = "done"
    /\ IF Len(image_files) > 0 /\ Len(names_column) > 0
       THEN \E r \in MainCalls[names_column[1], inp.cfg] :
                  /\ calls' = Append(calls,
                                CallRecord(0, image_files[1], names_column[1], r))
                  /\ ui' = [ui EXCEPT
                              !.errors = @ + r.errors,
                              !.warnings = @ + r.warnings
                                           + (IF r.ret = None THEN 1 ELSE 0)]
       ELSE UNCHANGED <<calls, ui>>
    /\ UNCHANGED <<upload, image_files, names_column, total_images, i,
                   processed_count, zip_file, inp, out>>

\* The loop bound taken from the images alone.
BatchStartAllImages ==
    /\ pc = "buttons"
    /\ inp.button = "batch"
    /\ pc' = "loop"
    /\ ui' = [ui EXCEPT !.zip_created = TRUE]
    /\ zip_file' = <<>>
    /\ total_images' = Len(image_files)
    /\ processed_count' = 0
    /\ i' = 0
    /\ UNCHANGED <<upload, image_files, names_column, calls, inp, out>>

\* if st.button("Process All Images"): the archive is opened
BatchStart ==
    /\ pc = "buttons"
    /\ inp.button = "batch"
    /\ pc' = "loop"
    /\ ui' = [ui EXCEPT !.zip_created = TRUE]
    /\ zip_file' = <<>>
    /\ total_images' = Min(Len(image_files), Len(names_column))
    /\ processed_count' = 0
    /\ i' = 0
    /\ UNCHANGED <<upload, image_files, names_column, calls, inp, out>>

\* One iteration of for i in range(total_images); the body runs under
\* if i < len(image_files) and i < len(names_column).
BatchIteration ==
    /\ pc = "loop"
    /\ i < total_images
    /\ IF i < Len(image_files) /\ i < Len(names_column)
       THEN \E r \in MainCalls[names_column[i + 1], inp.cfg] :
                /\ calls' = Append(calls,
                      CallRecord(i, image_files[i + 1], names_column[i + 1], r))
                /\ ui' = [ui EXCEPT !.errors = @ + r.errors,
                                    !.warnings = @ + r.warnings]
                /\ IF r.ret # None
                   THEN /\ zip_file' = Append(zip_file,
                                [name |-> EntryName(i + 1), data |-> r.ret])
                        /\ processed_count' = processed_count + 1
                   ELSE UNCHANGED <<zip_file, processed_count>>
       ELSE UNCHANGED <<calls, ui, zip_file, processed_count>>
    /\ i' = i + 1
    /\ pc' = "loop"
    /\ UNCHANGED <<upload, image_files, names_column, total_images, inp, out>>

\* After the loop: the status text, st.success and the download link.
BatchFinish ==
    /\ pc = "loop"
    /\ i >= total_images
    /\ pc' = "done"
    /\ ui' = [ui EXCEPT !.status = <<processed_count, total_images>>,
                        !.success = TRUE, !.link = TRUE]
    /\ UNCHANGED <<upload, image_files, names_column, total_images, i,
                   processed_count, zip_file, calls, inp, out>>

Next ==
    \/ NoUpload
    \/ Extract
    \/ FindCsv
    \/ ReadCsv
    \/ FindImages
    \/ NoButton
    \/ Preview
    \/ BatchStart
    \/ BatchIteration
    \/ BatchFinish

Spec == Init /\ [][Next]_vars

\* The script runs sequentially on one thread and every statement returns
\* (process_image catches what its library calls raise), so a step that can
\* be taken is eventually taken.
FairSpec == Spec /\ WF_vars(Next)

(***************************************************************************)
(* Claims about the pure functions.                                        *)
(***************************************************************************)

\* The midpoint of two pixel coordinates, rounded down to a pixel.
Midpoint(a, b) == CHOOSE c \in 0..Max(a, b) : 2 * c <= a + b /\ a + b < 2 * c + 2

\* C5: for a detected face <<top, right, bottom, left>>, the crop rectangle is
\* centred on the midpoint of the face, extends by bbox_size / 2 + padding
\* (in whole pixels) to each side, has its left and top clamped to 0 and its
\* right and bottom not clamped, whatever the size of the source image.
Thm_C5 ==
    pc = "crop_out" =>
        LET center_x == Midpoint(inp.face[4], inp.face[2])
            center_y == Midpoint(inp.face[1], inp.face[3])
            half_extent == (inp.bbox_size \div 2) + inp.padding
        IN  /\ out.box[1] = (IF center_x - half_extent < 0 THEN 0
                             ELSE center_x - half_extent)
            /\ out.box[2] = (IF center_y - half_extent < 0 THEN 0
                             ELSE center_y - half_extent)
            /\ out.box[3] = center_x + half_extent
            /\ out.box[4] = center_y + half_extent

\* A crop whose left edge was clamped to 0 and whose right and bottom edges
\* lie beyond the source image, of a face that lies inside the image.
Witness_C5 ==
    /\ pc = "crop_out"
    /\ inp.face[2] <= inp.img_size[1]
    /\ inp.face[3] <= inp.img_size[2]
    /\ Midpoint(inp.face[4], inp.face[2]) - (inp.bbox_size \div 2) - inp.padding < 0
    /\ out.box[1] = 0
    /\ out.box[2] > 0
    /\ out.box[3] > inp.img_size[1]
    /\ out.box[4] > inp.img_size[2]

\* C6: no line get_wrapped_text returns for max width = frame width - 20 is
\* measured wider than the max width, except a line that is a single word.
Thm_C6 ==
    (pc = "wrap_out" /\ ~out.raised) =>
        \A k \in 1..Len(out.lines) :
            inp.font[out.lines[k]] > inp.frame_width - TextMargin
                => Len(Split(out.lines[k])) = 1

\* A wrapped name with a line of several words that fits and a line of one
\* word that alone is too wide.
Witness_C6 ==
    /\ pc = "wrap_out"
    /\ ~out.raised
    /\ \E k \in 1..Len(out.lines) :
          /\ Len(Split(out.lines[k])) > 1
          /\ inp.font[out.lines[k]] <= inp.frame_width - TextMargin
    /\ \E k \in 1..Len(out.lines) :
          /\ Len(Split(out.lines[k])) = 1
          /\ inp.font[out.lines[k]] > inp.frame_width - TextMargin

Thm_C1 ==
    (pc = "image_out" /\ inp.env.raises # "detect"
                      /\ inp.env.face_locations = <<>>) =>
        /\ out.ret = None
        /\ out.warnings = 1
        /\ out.errors = 0
        /\ out.steps = <<"detect">>

\* A call on an image without a face, in an environment where a later step
\* would have raised and the font would not have loaded, with a border radius
\* and a name without a word.
Witness_C1 ==
    /\ pc = "image_out"
    /\ inp.env.face_locations = <<>>
    /\ inp.env.raises = "crop"
    /\ inp.env.font = "error"
    /\ inp.cfg.border_radius > 0
    /\ inp.name = NotAStr
    /\ out.warnings = 1

\* No library call raises and the name has a word: nothing raises in the call.
NoStepRaises ==
    /\ inp.env.raises = "none"
    /\ inp.env.font # "error"
    /\ inp.name.str
    /\ \E k \in 1..Len(inp.name.chars) : inp.name.chars[k] # Space

\* C10: when a face is detected and no step raises, process_image returns one
\* encoded artifact, without a warning or an error, whose canvas has exactly
\* the configured frame width and height.
Thm_C10 ==
    (pc = "image_out" /\ inp.env.face_locations # <<>> /\ NoStepRaises) =>
        /\ out.ret # None
        /\ out.ret.kind = "JPEG"
        /\ out.ret.size = inp.cfg.frame_size
        /\ Cardinality({k \in 1..Len(out.steps) : out.steps[k] = "encode"}) = 1
        /\ out.warnings = 0
        /\ out.errors = 0

\* An artifact whose masked tile, pasted at the top padding, reaches below the
\* frame, with a name of two words.
Witness_C10 ==
    /\ pc = "image_out"
    /\ inp.env.face_locations # <<>>
    /\ NoStepRaises
    /\ out.ret # None
    /\ out.ret.tile.pos[2] + out.ret.tile.side > inp.cfg.frame_size[2]
    /\ out.ret.tile.mask.shape = "ellipse"
    /\ Len(Split(inp.name.chars)) = 2

(***************************************************************************)
(* Claims about a run of main.                                             *)
(***************************************************************************)
InBatch == inp.button = "batch" /\ pc \in {"loop", "done"} /\ ui.zip_created

\* The number an archive entry is named by, and the characters before ".jpg".
EntryStem(e) == SubSeq(e.name, 1, Len(e.name) - 4)
EntryNumber(e) == ParseInt(EntryStem(e)).value

EntriesFor(p) == {k \in 1..Len(zip_file) : EntryNumber(zip_file[k]) = p + 1}

\* C2: in the batch every visited position was processed by exactly one call
\* (no retry); a call in which an exception occurred reported it exactly once
\* and returned nothing, and no archive entry was written for its position;
\* the only errors shown are those reports; the loop goes on after every
\* position and ends having visited them all.
Thm_C2 ==
    InBatch =>
        /\ Len(calls) = i
        /\ \A k \in 1..Len(calls) :
              /\ calls[k].pos = k - 1
              /\ calls[k].raised =>
                    /\ calls[k].errors = 1
                    /\ calls[k].ret = None
                    /\ EntriesFor(k - 1) = {}
        /\ ui.errors = Cardinality({k \in 1..Len(calls) : calls[k].raised})
        /\ pc = "loop" => i <= total_images
        /\ pc = "done" => (i = total_images /\ ui.success)

\* A finished batch in which an exception occurred at the first position and
\* the second position produced an artifact.
Witness_C2 ==
    /\ InBatch
    /\ pc = "done"
    /\ Len(calls) = 2
    /\ calls[1].raised
    /\ calls[2].ret # None
    /\ Len(zip_file) = 1

\* C3 as stated: a call in which loading the font failed is a failed call: it
\* reported one error and returned nothing, and its position has no entry.
Orig_C3 ==
    InBatch =>
        \A k \in 1..Len(calls) :
            calls[k].font_load \in {"ioerror", "ioerror_twice", "error"} =>
                /\ calls[k].errors = 1
                /\ calls[k].ret = None
                /\ EntriesFor(k - 1) = {}

\* C3, amended: a font load failure that raises IOError is recovered inside
\* the call by loading the default font: the font step does not fail, and
\* unless another step raises the artifact is made with the default font and
\* written to the archive.  A font load failure that raises any other
\* exception, or whose fallback raises too, is a failed call: reported once,
\* nothing returned, no entry for the position.  In both cases the batch goes
\* on to the next position.
Thm_C3 ==
    InBatch =>
        /\ \A k \in 1..Len(calls) :
              /\ calls[k].font_load \in {"error", "ioerror_twice"} =>
                    /\ calls[k].raised_at = "font"
                    /\ calls[k].errors = 1
                    /\ calls[k].ret = None
                    /\ EntriesFor(k - 1) = {}
              /\ calls[k].font_load = "ioerror" =>
                    /\ calls[k].raised_at # "font"
                    /\ calls[k].raised_at = "none" =>
                          /\ calls[k].errors = 0
                          /\ calls[k].ret # None
                          /\ calls[k].ret.font = "default"
                          /\ Cardinality(EntriesFor(k - 1)) = 1
        /\ Len(calls) = i
        /\ pc = "done" => i = total_images

\* A finished batch whose first call failed on a font error that is not an
\* IOError and whose second call fell back to the default font and produced
\* an artifact.
Witness_C3 ==
    /\ InBatch
    /\ pc = "done"
    /\ Len(calls) = 2
    /\ calls[1].font_load = "error"
    /\ calls[1].errors = 1
    /\ calls[2].font_load = "ioerror"
    /\ calls[2].ret # None
    /\ Len(zip_file) = 1

\* A decimal number of at least two digits, with a leading zero only to make
\* it two digits, followed by ".jpg".
TwoDigitName(name) ==
    LET stem == SubSeq(name, 1, Len(name) - 4)
    IN  /\ Len(name) >= 6
        /\ SubSeq(name, Len(name) - 3, Len(name)) = <<Dot>> \o Jpg
        /\ IsDigits(stem)
        /\ Len(stem) > 2 => stem[1] # Zero

\* The entry name of every sequence number up to MaxSeq is that number, with
\* a leading zero below 10.
EntryNamesWellFormed ==
    \A n \in 1..MaxSeq :
        /\ TwoDigitName(EntryName(n))
        /\ EntryNumber([name |-> EntryName(n)]) = n
        /\ n < 100 => Len(EntryName(n)) = 6

\* C4: at every point of the batch the archive holds exactly one entry for
\* each visited position whose call returned an artifact, and none for any
\* other position; the entry of position p is named by p + 1 written with two
\* digits, followed by .jpg; the names are pairwise distinct.
Thm_C4 ==
    InBatch =>
        /\ \A p \in 0..(Max(Len(image_files), Len(names_column))) :
              Cardinality(EntriesFor(p)) =
                  (IF p < i /\ calls[p + 1].ret # None THEN 1 ELSE 0)
        /\ \A k \in 1..Len(zip_file) :
              /\ TwoDigitName(zip_file[k].name)
              /\ EntryNumber(zip_file[k]) \in 1..total_images
              /\ zip_file[k].data = calls[EntryNumber(zip_file[k])].ret
        /\ \A a, b \in 1..Len(zip_file) :
              a # b => zip_file[a].name # zip_file[b].name
        /\ processed_count = Len(zip_file)
        /\ EntryNamesWellFormed

\* A finished batch with an entry for the second position and none for the
\* first.
Witness_C4 ==
    /\ InBatch
    /\ pc = "done"
    /\ total_images = 2
    /\ calls[1].ret = None
    /\ Len(zip_file) = 1
    /\ zip_file[1].name = <<Zero, Zero + 2, Dot>> \o Jpg

\* The archive has an input-structure error.
StructureError ==
    /\ upload # None
    /\ \/ upload.csv \in {"missing", "unreadable", "nocolumns"}
       \/ upload.found = <<>>

\* C7: with an input-structure error exactly one error is reported and the
\* batch is aborted: process_image is never called, no output archive is
\* created, no success message and no download link is shown.
Thm_C7 ==
    StructureError =>
        /\ calls = <<>>
        /\ ~ui.zip_created
        /\ zip_file = <<>>
        /\ ~ui.success
        /\ ~ui.link
        /\ ui.warnings = 0
        /\ ui.errors <= 1
        /\ pc = "done" => ui.errors = 1
        /\ pc \notin {"buttons", "loop"}

\* A finished run on an archive with names and a readable CSV but no image,
\* with the batch button clicked.
Witness_C7 ==
    /\ StructureError
    /\ upload.csv = "ok"
    /\ upload.names # <<>>
    /\ inp.button = "batch"
    /\ pc = "done"
    /\ ui.errors = 1

\* The files are past the sort.
Sorted == upload # None /\ pc \in {"buttons", "loop", "done"} /\ image_files # <<>>

AllNumeric == \A k \in 1..Len(upload.found) : IsDigits(upload.found[k].stem)

\* C8: the sorted list holds the files found; when every stem is an integer
\* it ascends by the value of the stem, otherwise the whole list ascends
\* lexicographically; the batch processes the image at position p of that
\* list with row p of the names, for every p below the smaller length.
Thm_C8 ==
    Sorted =>
        /\ Len(image_files) = Len(upload.found)
        /\ \A f \in FilePool :
              Cardinality({k \in 1..Len(image_files) : image_files[k] = f})
                = Cardinality({k \in 1..Len(upload.found) : upload.found[k] = f})
        /\ \A a, b \in 1..Len(image_files) :
              a < b =>
                IF AllNumeric
                THEN DecimalValue(image_files[a].stem)
                        <= DecimalValue(image_files[b].stem)
                ELSE LexLess(FileName(image_files[a]), FileName(image_files[b]))
        /\ InBatch =>
              /\ \A k \in 1..Len(calls) :
                    /\ calls[k].image = image_files[k]
                    /\ calls[k].name = upload.names[k]
              /\ pc = "done" =>
                    Len(calls) = Min(Len(upload.found), Len(upload.names))

\* A finished batch over files with integer stems whose numeric order is not
\* their lexicographic order and not the order they were found in.
Witness_C8 ==
    /\ Sorted
    /\ InBatch
    /\ pc = "done"
    /\ AllNumeric
    /\ Len(calls) = 2
    /\ image_files # upload.found
    /\ \E a, b \in 1..Len(image_files) :
          a < b /\ LexLess(FileName(image_files[b]), FileName(image_files[a]))

(***************************************************************************)
(* The pasted tile and the frame (process_image, one call).                *)
(***************************************************************************)

\* C11: for every configuration in the allowed ranges the resized tile fits
\* within the frame: the square of side cropped_size pasted at
\* (pos_x, top_padding) has pos_x >= 0, pos_x + cropped_size <= frame width
\* and top_padding + cropped_size <= frame height.
TileFitsFrame ==
    (pc = "image_out" /\ out.ret # None) =>
        /\ inp.cfg.frame_size[1] \in MinFrame..MaxFrame
        /\ inp.cfg.frame_size[2] \in MinFrame..MaxFrame
        /\ inp.cfg.top_padding \in MinTopPadding..MaxTopPadding
        /\ out.ret.tile.pos[1] >= 0
        /\ out.ret.tile.pos[1] + out.ret.tile.side <= inp.cfg.frame_size[1]
        /\ out.ret.tile.pos[2] + out.ret.tile.side <= inp.cfg.frame_size[2]

(***************************************************************************)
(* The batch loop: termination and the reported status.                    *)
(***************************************************************************)

\* What holds in every state of a batch: the bound is the minimum of the two
\* lengths, the positions called so far are 0 .. i-1 once each in increasing
\* order, the count equals the number of archive entries, and the status
\* reported on completion reads processed_count/total.
BatchSafe ==
    InBatch =>
        /\ total_images = Min(Len(image_files), Len(names_column))
        /\ i \in 0..total_images
        /\ Len(calls) = i
        /\ \A k \in 1..Len(calls) : calls[k].pos = k - 1
        /\ processed_count = Len(zip_file)
        /\ processed_count \in 0..i
        /\ pc = "loop" => ui.status = <<>>
        /\ pc = "done" =>
              /\ i = total_images
              /\ ui.status = <<processed_count, total_images>>
              /\ processed_count \in 0..total_images

\* One position at a time: a step of the loop calls process_image for the
\* current position only and moves to the next one; nothing is revisited.
BatchStep ==
    (pc = "loop" /\ pc' = "loop") =>
        /\ i' = i + 1
        /\ Len(calls') = Len(calls) + 1
        /\ calls'[Len(calls')].pos = i
        /\ \A k \in 1..Len(calls) : calls'[k] = calls[k]
        /\ total_images' = total_images

\* C12: the batch always terminates: it visits the positions 0 .. total-1,
\* total = min(number of images, number of name rows), exactly once each, in
\* increasing order and one at a time, whatever the per-image outcomes are;
\* on completion the status is processed_count/total, where processed_count
\* is the number of archive entries and 0 <= processed_count <= total
\* (including total = 0 when the name column is empty).
Thm_C12 ==
    /\ []BatchSafe
    /\ [][BatchStep]_vars
    /\ (pc = "loop") ~> (pc = "done")

\* A finished batch over three images and two names where the first call
\* failed and the second produced an entry: status 1/2.
Witness_C12 ==
    /\ InBatch
    /\ pc = "done"
    /\ Len(image_files) = 3
    /\ Len(names_column) = 2
    /\ Len(calls) = 2
    /\ calls[1].ret = None
    /\ calls[2].ret # None
    /\ ui.status = <<1, 2>>

(***************************************************************************)
(* get_wrapped_text keeps the words of the name.                           *)
(***************************************************************************)

RECURSIVE WordsOf(_)
\* The words of the lines, line after line.
WordsOf(lines) ==
    IF lines = <<>> THEN <<>>
    ELSE Split(lines[1]) \o WordsOf(Tail(lines))

\* C13: for every name with at least one word, the lines get_wrapped_text
\* returns, joined in order with single spaces, are exactly the
\* whitespace-separated words of the name in their original order: no word
\* is dropped, duplicated, reordered or split, and no line is empty.
Thm_C13 ==
    (pc = "wrap_out" /\ inp.text.str /\ Split(inp.text.chars) # <<>>) =>
        /\ ~out.raised
        /\ out.lines # <<>>
        /\ \A k \in 1..Len(out.lines) : out.lines[k] # <<>>
        /\ JoinWords(out.lines) = JoinWords(Split(inp.text.chars))
        /\ WordsOf(out.lines) = Split(inp.text.chars)

\* A name with more whitespace than single spaces between its words, wrapped
\* into more than one line.
Witness_C13 ==
    /\ pc = "wrap_out"
    /\ ~out.raised
    /\ Len(out.lines) >= 2
    /\ Len(Split(inp.text.chars)) >= 2
    /\ inp.text.chars # JoinWords(out.lines)
    /\ inp.text.chars[1] = Space

(***************************************************************************)
(* A name without a word.                                                  *)
(***************************************************************************)

\* The steps of process_image that come before the wrap of the name.
BeforeWrap ==
    {"detect", "open", "crop", "resize", "mask", "canvas", "paste", "font"}

NoWord(name) == name.str /\ Split(name.chars) = <<>>

\* The wrap step fails on every string without a word, the empty one included.
WrapFailsWithoutWord ==
    \A t \in Texts(MaxNameLen) :
        Split(t) = <<>> =>
            get_wrapped_text(Str(t), FixedFont(Str(t), GlyphWidth),
                             DefaultCfg.frame_size[1] - TextMargin).raised

\* C14: when a face is detected but the name has no word (empty or only
\* whitespace), process_image produces no artifact: the wrap step fails on
\* the empty word list, the failure is caught and reported as one error of
\* that image, None is returned, the position gets no archive entry, and the
\* batch goes on to the following positions.
Thm_C14 ==
    /\ WrapFailsWithoutWord
    /\ InBatch =>
          /\ \A k \in 1..Len(calls) :
                NoWord(calls[k].name) =>
                    /\ calls[k].ret = None
                    /\ EntriesFor(k - 1) = {}
                    /\ calls[k].raised_at \notin {"draw", "encode"}
                    /\ (calls[k].warnings = 0
                            /\ calls[k].raised_at \notin BeforeWrap) =>
                          /\ calls[k].raised
                          /\ calls[k].raised_at = "wrap"
                          /\ calls[k].errors = 1
          /\ Len(calls) = i
          /\ pc = "done" => i = total_images

\* A finished batch whose first name is blank: its call found a face, failed
\* at the wrap step and left no entry, and the second position was processed
\* and archived.
Witness_C14 ==
    /\ InBatch
    /\ pc = "done"
    /\ Len(calls) = 2
    /\ NoWord(calls[1].name)
    /\ calls[1].warnings = 0
    /\ calls[1].raised_at = "wrap"
    /\ calls[1].ret = None
    /\ ~NoWord(calls[2].name)
    /\ calls[2].ret # None
    /\ Len(zip_file) = 1
    /\ zip_file[1].name = EntryName(2)

====
